---------------------------- MODULE Spec2Model ----------------------------
(***************************************************************************)
(* projtrack (src/main.go): a command-line project tracker that keeps a    *)
(* list of projects in one JSON file, ~/.projtrack.json.                   *)
(*                                                                         *)
(* Modelling conventions                                                   *)
(*   - A time.Time is the number of hours since day 0, 00:00 UTC.  A       *)
(*     time.Duration is a number of hours.  A calendar date is a day       *)
(*     number; parseDate yields midnight UTC of that day.                  *)
(*   - A Go string is a sequence of one-character strings.  "xFF" stands   *)
(*     for a byte that is not valid UTF-8 and "uFFFD" for the Unicode      *)
(*     replacement rune encoding/json writes in its place.                 *)
(*   - Go's int is scaled from 64 to IntBits bits; arithmetic wraps.       *)
(*   - The storage file is absent, unparseable bytes, or a JSON array.     *)
(*   - Environment: the command line parses (flag.ExitOnError ends the     *)
(*     process otherwise), the home directory resolves, the file is        *)
(*     readable and the local time zone is UTC; a refused write            *)
(*     (os.WriteFile failing to open) leaves the file as it was.  A write  *)
(*     failing part-way (disk full) is not modelled.                       *)
(***************************************************************************)
EXTENDS Integers, Sequences, FiniteSets, TLC

VARIABLES
    file,     \* the storage file
    now,      \* the wall clock, in hours
    last,     \* what the last invocation did: command, error, exit code, output
    added,    \* history: IDs reported by successful add invocations
    doneOK,   \* history: IDs of successful done invocations
    procs,    \* concurrent invocations: each one's position and memory
    writes,   \* history: completed writes of the file by concurrent invocations
    arg,      \* input of a function checked on its own
    ret       \* its result

vars == <<file, now, last, added, doneOK, procs, writes, arg, ret>>

----------------------------------------------------------------------------
(* Bounds *)

MaxProjects == 2
MaxTicks == 2
IntBits == 4
MaxListLen == 2
MaxDiffDays == 9

(* Program constants *)
HoursPerDay == 24
UrgentDays == 2
WarningDays == 7

TimeSteps == {12}

----------------------------------------------------------------------------
(* Go int: IntBits-bit two's complement *)

RECURSIVE Pow2(_)
Pow2(n) == IF n = 0 THEN 1 ELSE 2 * Pow2(n - 1)

MaxInt == Pow2(IntBits - 1) - 1
MinInt == -Pow2(IntBits - 1)

\* The value of x in Go's int: wraps around on overflow.
WrapInt(x) == ((x - MinInt) % Pow2(IntBits)) + MinInt

\* int(f) of a float f = a / b: truncation toward zero (b > 0).
TruncDiv_Floor(a, b) == a \div b

TruncDiv(a, b) == IF a >= 0 THEN a \div b ELSE -((-a) \div b)

----------------------------------------------------------------------------
(* Strings *)

EmptyStr == <<>>

\* encoding/json coerces strings to valid UTF-8, replacing invalid bytes.
RECURSIVE ToValidUTF8(_)
ToValidUTF8(s) ==
    IF s = <<>> THEN <<>>
    ELSE <<IF Head(s) = "xFF" THEN "uFFFD" ELSE Head(s)>> \o ToValidUTF8(Tail(s))

RECURSIVE SplitFrom(_, _, _)
SplitFrom(s, sep, cur) ==
    IF s = <<>> THEN <<cur>>
    ELSE IF Head(s) = sep THEN <<cur>> \o SplitFrom(Tail(s), sep, <<>>)
    ELSE SplitFrom(Tail(s), sep, Append(cur, Head(s)))

\* strings.Split(s, sep) for a one-character separator
Split(s, sep) == SplitFrom(s, sep, <<>>)

RECURSIVE TrimLeft(_)
TrimLeft(s) == IF s # <<>> /\ Head(s) = " " THEN TrimLeft(Tail(s)) ELSE s

RECURSIVE TrimRight(_)
TrimRight(s) ==
    IF s # <<>> /\ s[Len(s)] = " " THEN TrimRight(SubSeq(s, 1, Len(s) - 1)) ELSE s

\* strings.TrimSpace
TrimSpace(s) == TrimRight(TrimLeft(s))

LowerChar(c) == CASE c = "W" -> "w" [] c = "A" -> "a" [] OTHER -> c

\* strings.EqualFold on the model's alphabet
EqualFold(s, t) ==
    /\ Len(s) = Len(t)
    /\ \A i \in DOMAIN s : LowerChar(s[i]) = LowerChar(t[i])

\* strings.ToLower on the status words the model passes
ToLower(s) ==
    CASE s = "ACTIVE" -> "active"
      [] s = "Done" -> "done"
      [] OTHER -> s

DigitVal(c) ==
    CASE c = "0" -> 0 [] c = "1" -> 1 [] c = "2" -> 2 [] c = "3" -> 3
      [] c = "4" -> 4 [] c = "5" -> 5 [] c = "6" -> 6 [] c = "7" -> 7
      [] c = "8" -> 8 [] c = "9" -> 9 [] OTHER -> -1

RECURSIVE DigitsValue(_, _)
DigitsValue(s, acc) ==
    IF s = <<>> THEN acc ELSE DigitsValue(Tail(s), 10 * acc + DigitVal(Head(s)))

\* strconv.Atoi: an optional sign and decimal digits, within the range of int.
Atoi(s) ==
    LET neg == s # <<>> /\ Head(s) = "-"
        ds == IF s # <<>> /\ Head(s) \in {"-", "+"} THEN Tail(s) ELSE s
        v == IF neg THEN -DigitsValue(ds, 0) ELSE DigitsValue(ds, 0)
    IN  IF ds = <<>> \/ \E i \in DOMAIN ds : DigitVal(ds[i]) < 0
        THEN [err |-> TRUE, v |-> 0]
        ELSE IF v > MaxInt \/ v < MinInt
        THEN [err |-> TRUE, v |-> 0]
        ELSE [err |-> FALSE, v |-> v]

DigitChar(d) ==
    CASE d = 0 -> "0" [] d = 1 -> "1" [] d = 2 -> "2" [] d = 3 -> "3"
      [] d = 4 -> "4" [] d = 5 -> "5" [] d = 6 -> "6" [] d = 7 -> "7"
      [] d = 8 -> "8" [] OTHER -> "9"

RECURSIVE Digits(_)
Digits(n) == IF n < 10 THEN <<DigitChar(n)>> ELSE Append(Digits(n \div 10), DigitChar(n % 10))

\* The decimal text of n, as a user types an ID.
Itoa(n) == IF n < 0 THEN <<"-">> \o Digits(-n) ELSE Digits(n)

----------------------------------------------------------------------------
(* Dates.  A -start/-due flag value is empty, malformed, or YYYY-MM-DD. *)

NoDate == [kind |-> "empty", day |-> 0]
BadDate == [kind |-> "bad", day |-> 0]
DateStr(d) == [kind |-> "date", day |-> d]

\* parseDate: midnight UTC of the day, or an error.
parseDate(s) ==
    IF s.kind = "date"
    THEN [err |-> FALSE, t |-> s.day * HoursPerDay]
    ELSE [err |-> TRUE, t |-> 0]

\* The day an instant falls on (floor, also before day 0).
DayOf(t) == IF t >= 0 THEN t \div HoursPerDay ELSE -((-t + HoursPerDay - 1) \div HoursPerDay)

\* formatDate: the calendar date of the instant.
formatDate(t) == DateStr(DayOf(t))

truncateToDate(t) == DayOf(t) * HoursPerDay

----------------------------------------------------------------------------
(* Status *)

statusColorAndLabel_IgnoresDone(p, t) ==
    LET days == TruncDiv(p.DueDate - t, HoursPerDay)
    IN  CASE days < 0 -> [color |-> "red", label |-> "OVERDUE", n |-> -days]
          [] days = 0 -> [color |-> "red", label |-> "DUE TODAY", n |-> 0]
          [] OTHER -> [color |-> "green", label |-> "DUE IN", n |-> days]

\* statusColorAndLabel: colour, label and the number of days in the label.
statusColorAndLabel(p, t) ==
    IF p.Done
    THEN [color |-> "cyan", label |-> "DONE", n |-> 0]
    ELSE LET diff == p.DueDate - t
             days == TruncDiv(diff, HoursPerDay)
         IN  CASE days < 0 -> [color |-> "red", label |-> "OVERDUE", n |-> -days]
               [] days = 0 -> [color |-> "red", label |-> "DUE TODAY", n |-> 0]
               [] days > 0 /\ days <= UrgentDays ->
                      [color |-> "red", label |-> "DUE IN", n |-> days]
               [] days > UrgentDays /\ days <= WarningDays ->
                      [color |-> "yellow", label |-> "DUE IN", n |-> days]
               [] OTHER -> [color |-> "green", label |-> "DUE IN", n |-> days]

isOverdue(p, t) == IF p.Done THEN FALSE ELSE p.DueDate < truncateToDate(t)

hasTag(p, tag) ==
    IF tag = EmptyStr THEN TRUE ELSE \E i \in DOMAIN p.Tags : EqualFold(p.Tags[i], tag)

matchesStatusFilter(p, status, t) ==
    LET s == ToLower(status)
    IN  CASE s \in {"all", ""} -> TRUE
          [] s = "active" -> ~p.Done
          [] s = "done" -> p.Done
          [] s = "overdue" -> isOverdue(p, t)
          [] OTHER -> TRUE

----------------------------------------------------------------------------
(* Persistence *)

Absent == [kind |-> "absent", valid |-> FALSE, arr |-> <<>>]
\* A file of zero bytes, as os.WriteFile leaves it between truncating and
\* writing: it does not parse.
ZeroBytes == [kind |-> "bytes", valid |-> FALSE, arr |-> <<>>]
\* The bytes of two writes laid over each other: they do not parse either.
Mixed == [kind |-> "mixed", valid |-> FALSE, arr |-> <<>>]
JSONFile(a) == [kind |-> "bytes", valid |-> TRUE, arr |-> a]

EncodeTime(t) == <<"RFC3339", t>>
DecodeTime(s) == s[2]

RECURSIVE CoerceAll(_)
CoerceAll(ss) == IF ss = <<>> THEN <<>> ELSE <<ToValidUTF8(Head(ss))>> \o CoerceAll(Tail(ss))

\* One Project as a JSON object; tags and notes are omitted when empty.
MarshalProject(p) ==
    [id |-> p.ID,
     name |-> ToValidUTF8(p.Name),
     start_date |-> EncodeTime(p.StartDate),
     due_date |-> EncodeTime(p.DueDate),
     done |-> p.Done,
     has_tags |-> p.Tags # <<>>,
     tags |-> CoerceAll(p.Tags),
     has_notes |-> p.Notes # <<>>,
     notes |-> ToValidUTF8(p.Notes)]

UnmarshalProject(o) ==
    [ID |-> o.id,
     Name |-> o.name,
     StartDate |-> DecodeTime(o.start_date),
     DueDate |-> DecodeTime(o.due_date),
     Done |-> o.done,
     Tags |-> IF o.has_tags THEN o.tags ELSE <<>>,
     Notes |-> IF o.has_notes THEN o.notes ELSE <<>>]

RECURSIVE MarshalIndent(_)
MarshalIndent(projects) ==
    IF projects = <<>> THEN <<>>
    ELSE <<MarshalProject(Head(projects))>> \o MarshalIndent(Tail(projects))

RECURSIVE Unmarshal(_)
Unmarshal(a) ==
    IF a = <<>> THEN <<>> ELSE <<UnmarshalProject(Head(a))>> \o Unmarshal(Tail(a))

\* loadProjects: the empty list when the file is absent, an error when it
\* does not parse.
loadProjects(f) ==
    IF f.kind = "absent" THEN [err |-> FALSE, projects |-> <<>>]
    ELSE IF ~f.valid THEN [err |-> TRUE, projects |-> <<>>]
    ELSE [err |-> FALSE, projects |-> Unmarshal(f.arr)]

\* saveProjects: the whole list written over the file; a refused write
\* (writable = FALSE) is an error and leaves the file.
saveProjects(projects, f, writable) ==
    IF writable
    THEN [err |-> FALSE, file |-> JSONFile(MarshalIndent(projects))]
    ELSE [err |-> TRUE, file |-> f]

Max(a, b) == IF a > b THEN a ELSE b

RECURSIVE MaxIDFrom(_, _)
MaxIDFrom(projects, maxID) ==
    IF projects = <<>> THEN maxID
    ELSE MaxIDFrom(Tail(projects), Max(Head(projects).ID, maxID))

nextID_NoIncrement(projects) == MaxIDFrom(projects, 0)

nextID(projects) == WrapInt(MaxIDFrom(projects, 0) + 1)

----------------------------------------------------------------------------
(* Command-line arguments the model passes *)

NameA == <<"a">>
NameBad == <<"b", "xFF">>
TagsTwo == <<"w", ",", " ", ",", " ", "H">>
NotesN == <<"n">>

AddArgs ==
    { [name |-> EmptyStr, start |-> NoDate, due |-> DateStr(1), tags |-> EmptyStr, notes |-> EmptyStr],
      [name |-> NameA, start |-> NoDate, due |-> NoDate, tags |-> EmptyStr, notes |-> EmptyStr],
      [name |-> NameA, start |-> NoDate, due |-> BadDate, tags |-> EmptyStr, notes |-> EmptyStr],
      [name |-> NameA, start |-> BadDate, due |-> DateStr(1), tags |-> EmptyStr, notes |-> EmptyStr],
      [name |-> NameA, start |-> NoDate, due |-> DateStr(1), tags |-> EmptyStr, notes |-> EmptyStr],
      [name |-> NameBad, start |-> DateStr(0), due |-> DateStr(0), tags |-> TagsTwo, notes |-> NotesN] }

ListArgs ==
    { [status |-> "all", tag |-> EmptyStr],
      [status |-> "ACTIVE", tag |-> EmptyStr],
      [status |-> "done", tag |-> EmptyStr],
      [status |-> "overdue", tag |-> EmptyStr],
      [status |-> "bogus", tag |-> EmptyStr],
      [status |-> "all", tag |-> <<"W">>] }

IdStrs == {EmptyStr, <<"x">>, Itoa(MaxInt)} \cup {Itoa(n) : n \in 1..MaxProjects}

----------------------------------------------------------------------------
(* The commands, one invocation at a time *)

NoRun == [cmd |-> "none", err |-> "", exit |-> 0, id |-> 0,
          status |-> "", tag |-> EmptyStr, rows |-> <<>>, at |-> 0]

Failed(cmd, err, t) == [NoRun EXCEPT !.cmd = cmd, !.err = err, !.exit = 1, !.at = t]

RECURSIVE ParseTags(_)
ParseTags(pieces) ==
    IF pieces = <<>> THEN <<>>
    ELSE LET tag == TrimSpace(Head(pieces))
         IN  (IF tag # EmptyStr THEN <<tag>> ELSE <<>>) \o ParseTags(Tail(pieces))

\* The tags of cmdAdd: the -tags value split at commas, trimmed, empties dropped.
TagsOf(tagsStr) == IF tagsStr # EmptyStr THEN ParseTags(Split(tagsStr, ",")) ELSE <<>>

AppendProject_Replaces(projects, p) == <<p>>

\* projects = append(projects, p)
AppendProject(projects, p) == Append(projects, p)

\* The Project cmdAdd builds from its flags, the loaded list and the clock.
NewProject(a, projects, t) ==
    [ID |-> nextID(projects),
     Name |-> a.name,
     StartDate |-> IF a.start = NoDate THEN t ELSE parseDate(a.start).t,
     DueDate |-> parseDate(a.due).t,
     Done |-> FALSE,
     Tags |-> TagsOf(a.tags),
     Notes |-> a.notes]

\* The flag checks of cmdAdd, in the code's order; "" when they pass.
AddFlagError(a) ==
    CASE a.name = EmptyStr -> "name required"
      [] a.due = NoDate -> "due required"
      [] a.start # NoDate /\ parseDate(a.start).err -> "invalid start date"
      [] parseDate(a.due).err -> "invalid due date"
      [] OTHER -> ""

\* cmdAdd as a whole: the file it leaves and what it reports.
AddOutcome(a, f, t, writable) ==
    IF AddFlagError(a) # "" THEN [file |-> f, run |-> Failed("add", AddFlagError(a), t)]
    ELSE LET ld == loadProjects(f)
         IN  IF ld.err THEN [file |-> f, run |-> Failed("add", "load", t)]
             ELSE LET projects == ld.projects
                      p == NewProject(a, projects, t)
                      sv == saveProjects(AppendProject(projects, p), f, writable)
                  IN  IF sv.err THEN [file |-> sv.file, run |-> Failed("add", "save", t)]
                      ELSE [file |-> sv.file,
                            run |-> [NoRun EXCEPT !.cmd = "add", !.id = p.ID, !.at = t]]

cmdAdd(a, writable) ==
    \E o \in {AddOutcome(a, file, now, writable)} :
        /\ o.file.valid => Len(o.file.arr) <= MaxProjects
        /\ file' = o.file
        /\ last' = o.run
        /\ added' = IF o.run.err = "" THEN added \cup {o.run.id} ELSE added
        /\ UNCHANGED <<now, doneOK, procs, writes, arg, ret>>

RECURSIVE InsertByDue(_, _)
InsertByDue(p, sorted) ==
    IF sorted = <<>> THEN <<p>>
    ELSE IF p.DueDate < Head(sorted).DueDate THEN <<p>> \o sorted
    ELSE <<Head(sorted)>> \o InsertByDue(p, Tail(sorted))

RECURSIVE SortByDue(_)
\* sort.Slice by DueDate.Before (an insertion sort for these short slices)
SortByDue(projects) ==
    IF projects = <<>> THEN <<>>
    ELSE InsertByDue(projects[Len(projects)], SortByDue(SubSeq(projects, 1, Len(projects) - 1)))

Row(p, t) ==
    LET st == statusColorAndLabel(p, t)
    IN  [id |-> p.ID, start |-> formatDate(p.StartDate), due |-> formatDate(p.DueDate),
         color |-> st.color, label |-> st.label, n |-> st.n]

RECURSIVE ListRows(_, _, _)
\* The rows cmdList prints for the (sorted) projects under the filters.
ListRows(projects, la, t) ==
    IF projects = <<>> THEN <<>>
    ELSE LET p == Head(projects)
         IN  (IF matchesStatusFilter(p, la.status, t) /\ hasTag(p, la.tag)
              THEN <<Row(p, t)>> ELSE <<>>) \o ListRows(Tail(projects), la, t)

ListOutcome_SavesSorted(la, f, t) ==
    LET ld == loadProjects(f)
        run == [NoRun EXCEPT !.cmd = "list", !.status = la.status, !.tag = la.tag, !.at = t]
    IN  IF ld.err \/ Len(ld.projects) = 0 THEN [file |-> f, run |-> run]
        ELSE [file |-> JSONFile(MarshalIndent(SortByDue(ld.projects))),
              run |-> [run EXCEPT !.rows = ListRows(SortByDue(ld.projects), la, t)]]

\* cmdList as a whole: the file it leaves and what it prints.
ListOutcome(la, f, t) ==
    LET ld == loadProjects(f)
        run == [NoRun EXCEPT !.cmd = "list", !.status = la.status, !.tag = la.tag, !.at = t]
    IN  IF ld.err
        THEN [file |-> f,
              run |-> [Failed("list", "load", t) EXCEPT !.status = la.status, !.tag = la.tag]]
        ELSE IF Len(ld.projects) = 0 THEN [file |-> f, run |-> run]
        ELSE [file |-> f, run |-> [run EXCEPT !.rows = ListRows(SortByDue(ld.projects), la, t)]]

cmdList(la) ==
    \E o \in {ListOutcome(la, file, now)} :
        /\ file' = o.file
        /\ last' = o.run
        /\ UNCHANGED <<now, added, doneOK, procs, writes, arg, ret>>

RECURSIVE MarkDone(_, _)
\* The loop of cmdDone: the first project with the ID gets Done = true.
MarkDone(projects, id) ==
    IF projects = <<>> THEN <<>>
    ELSE IF Head(projects).ID = id
    THEN <<[Head(projects) EXCEPT !.Done = TRUE]>> \o Tail(projects)
    ELSE <<Head(projects)>> \o MarkDone(Tail(projects), id)

Found(projects, id) == \E i \in DOMAIN projects : projects[i].ID = id

DoneOutcome_SavesBeforeCheck(idStr, f, t, writable) ==
    LET id == Atoi(idStr)
        ld == loadProjects(f)
        sv == saveProjects(MarkDone(ld.projects, id.v), f, writable)
    IN  IF idStr = EmptyStr THEN [file |-> f, run |-> Failed("done", "id required", t)]
        ELSE IF id.err THEN [file |-> f, run |-> Failed("done", "invalid id", t)]
        ELSE IF ld.err THEN [file |-> f, run |-> Failed("done", "load", t)]
        ELSE IF sv.err
        THEN [file |-> sv.file, run |-> [Failed("done", "save", t) EXCEPT !.id = id.v]]
        ELSE IF ~Found(ld.projects, id.v)
        THEN [file |-> sv.file, run |-> [Failed("done", "not found", t) EXCEPT !.id = id.v]]
        ELSE [file |-> sv.file,
              run |-> [NoRun EXCEPT !.cmd = "done", !.id = id.v, !.at = t]]

\* cmdDone as a whole.
DoneOutcome(idStr, f, t, writable) ==
    LET id == Atoi(idStr)
        ld == loadProjects(f)
        sv == saveProjects(MarkDone(ld.projects, id.v), f, writable)
    IN  IF idStr = EmptyStr THEN [file |-> f, run |-> Failed("done", "id required", t)]
        ELSE IF id.err THEN [file |-> f, run |-> Failed("done", "invalid id", t)]
        ELSE IF ld.err THEN [file |-> f, run |-> Failed("done", "load", t)]
        ELSE IF ~Found(ld.projects, id.v)
        THEN [file |-> f, run |-> [Failed("done", "not found", t) EXCEPT !.id = id.v]]
        ELSE IF sv.err
        THEN [file |-> sv.file, run |-> [Failed("done", "save", t) EXCEPT !.id = id.v]]
        ELSE [file |-> sv.file,
              run |-> [NoRun EXCEPT !.cmd = "done", !.id = id.v, !.at = t]]

cmdDone(idStr, writable) ==
    \E o \in {DoneOutcome(idStr, file, now, writable)} :
        /\ file' = o.file
        /\ last' = o.run
        /\ doneOK' = IF o.run.err = "" THEN doneOK \cup {o.run.id} ELSE doneOK
        /\ UNCHANGED <<now, added, procs, writes, arg, ret>>

FirstWithID(projects, id) ==
    projects[CHOOSE i \in DOMAIN projects :
                 /\ projects[i].ID = id
                 /\ \A j \in 1..(i - 1) : projects[j].ID # id]

\* cmdShow as a whole.  When no project has the ID it prints the message
\* and returns: main ends normally, exit code 0.
ShowOutcome(idStr, f, t) ==
    LET id == Atoi(idStr)
        ld == loadProjects(f)
    IN  IF idStr = EmptyStr THEN [file |-> f, run |-> Failed("show", "id required", t)]
        ELSE IF id.err THEN [file |-> f, run |-> Failed("show", "invalid id", t)]
        ELSE IF ld.err THEN [file |-> f, run |-> Failed("show", "load", t)]
        ELSE IF Found(ld.projects, id.v)
        THEN [file |-> f,
              run |-> [NoRun EXCEPT !.cmd = "show", !.id = id.v, !.at = t,
                                    !.rows = <<Row(FirstWithID(ld.projects, id.v), t)>>]]
        ELSE [file |-> f,
              run |-> [NoRun EXCEPT !.cmd = "show", !.id = id.v, !.at = t,
                                    !.err = "not found", !.exit = 0]]

cmdShow(idStr) ==
    \E o \in {ShowOutcome(idStr, file, now)} :
        /\ file' = o.file
        /\ last' = o.run
        /\ UNCHANGED <<now, added, doneOK, procs, writes, arg, ret>>

\* Time passes between invocations.
Tick(s) ==
    /\ now + s <= MaxTicks * 12
    /\ now' = now + s
    /\ UNCHANGED <<file, last, added, doneOK, procs, writes, arg, ret>>

NoProcs == <<>>
NoArg == [kind |-> "none"]
NoRet == [set |-> FALSE]

Init ==
    /\ file \in {Absent, ZeroBytes, JSONFile(<<>>)}
    /\ now = 0
    /\ last = NoRun
    /\ added = {}
    /\ doneOK = {}
    /\ procs = NoProcs
    /\ writes = 0
    /\ arg = NoArg
    /\ ret = NoRet

Next ==
    \/ \E a \in AddArgs, w \in BOOLEAN : cmdAdd(a, w)
    \/ \E la \in ListArgs : cmdList(la)
    \/ \E s \in IdStrs, w \in BOOLEAN : cmdDone(s, w)
    \/ \E s \in IdStrs : cmdShow(s)
    \/ \E s \in TimeSteps : Tick(s)

Spec == Init /\ [][Next]_vars

----------------------------------------------------------------------------
(* Properties of sequential invocations *)

\* The persisted list: what the file holds, empty while the file is absent.
Persisted(f) == IF f.valid THEN f.arr ELSE <<>>

\* C1: starting from an absent or empty file, after any sequence of
\* invocations run one at a time the IDs in the persisted list are
\* pairwise distinct.
C1_UniqueIDs ==
    file.valid =>
        \A i, j \in DOMAIN file.arr : i # j => file.arr[i].id # file.arr[j].id

\* C1 witness: two successful adds have been persisted.
C1_Witness == file.valid /\ Len(file.arr) >= 2 /\ Cardinality(added) >= 2

\* C2: every add, done or show invocation that hits an error ends with
\* exit code 1, also done and show of an ID no project has.
C2_ErrorsExitOne ==
    (/\ last.cmd \in {"add", "done", "show"}
     /\ last.err \in {"name required", "due required", "id required",
                      "invalid start date", "invalid due date", "invalid id",
                      "not found", "load", "save"}) => last.exit = 1

\* One object of the file unchanged but for its done flag, which may only
\* go from false to true.
KeptBut(o1, o2) == [o2 EXCEPT !.done = o1.done] = o1 /\ (o1.done => o2.done)

C4_Step ==
    LET old == Persisted(file)
        new == Persisted(file')
    IN  /\ file.valid => file'.valid
        /\ Len(new) >= Len(old)
        /\ \A i \in DOMAIN old : KeptBut(old[i], new[i])
        /\ Len(new) > Len(old) => last'.cmd = "add" /\ Len(new) = Len(old) + 1
        /\ (\E i \in DOMAIN old : old[i].done # new[i].done) => last'.cmd = "done"
        /\ last'.cmd = "list" => file' = file

\* C4: across sequential invocations the persisted list only grows by
\* appending; a project keeps its position and fields, its done flag only
\* goes from false to true; only add appends, only done flips a flag, and
\* list leaves the on-disk order alone.
C4_AppendOnly == [][C4_Step]_vars

\* C4 witness: list has printed two projects in an order other than the
\* file's, one of them marked done.
C4_Witness ==
    /\ file.valid /\ Len(file.arr) = 2 /\ doneOK # {}
    /\ last.cmd = "list" /\ Len(last.rows) = 2
    /\ last.rows[1].id = file.arr[2].id

\* C7: a list without filters after a successful add prints a row with
\* every ID add reported; a show of an ID after a successful done of it
\* reports DONE, whatever the due date and the clock, and keeps doing so.
C7_AddThenList_DoneThenShow ==
    /\ (last.cmd = "list" /\ last.status = "all" /\ last.tag = EmptyStr) =>
           \A id \in added :
               last.err = "" /\ \E i \in DOMAIN last.rows : last.rows[i].id = id
    /\ (last.cmd = "show" /\ last.id \in doneOK) =>
           /\ last.err = ""
           /\ Len(last.rows) = 1
           /\ last.rows[1].id = last.id
           /\ last.rows[1].label = "DONE"
           /\ last.rows[1].color = "cyan"

\* C7 witness: show of a project marked done whose due date has passed,
\* after a later add.
C7_Witness ==
    /\ last.cmd = "show" /\ last.id \in doneOK /\ Len(last.rows) = 1
    /\ last.rows[1].due.day < DayOf(last.at)
    /\ \E id \in added : id > last.id

ValidationErrors ==
    {"name required", "due required", "invalid start date", "invalid due date",
     "id required", "invalid id", "not found"}

C8_Step ==
    /\ last'.cmd \in {"list", "show"} => file' = file
    /\ last'.err \in ValidationErrors => file' = file
    /\ file' # file => last'.cmd \in {"add", "done"} /\ last'.err = ""

\* C8: only an invocation that mutates the list rewrites the file: list
\* and show leave it as it is, and so does an add or done that ends in a
\* validation error.
C8_OnlyMutationsWrite == [][C8_Step]_vars

\* C8 witness: done of an ID no project has, on a file that holds projects.
C8_Witness ==
    /\ last.cmd = "done" /\ last.err = "not found"
    /\ file.valid /\ Len(file.arr) > 0

----------------------------------------------------------------------------
(* statusColorAndLabel on its own: a project and a clock reading *)

StatusGrain == {0, 6, 12, 18}

StatusInputs ==
    { [kind |-> "status", done |-> d, due |-> HoursPerDay * dd + g, now |-> t] :
        d \in BOOLEAN, dd \in (-MaxDiffDays)..MaxDiffDays, g \in {0, 12}, t \in StatusGrain }

StatusProject(a) ==
    [ID |-> 1, Name |-> NameA, StartDate |-> 0, DueDate |-> a.due,
     Done |-> a.done, Tags |-> <<>>, Notes |-> EmptyStr]

Classify ==
    /\ arg.kind = "status" /\ ~ret.set
    /\ ret' = [set |-> TRUE, st |-> statusColorAndLabel(StatusProject(arg), arg.now)]
    /\ UNCHANGED <<file, now, last, added, doneOK, procs, writes, arg>>

InitStatus ==
    /\ file = Absent /\ now = 0 /\ last = NoRun /\ added = {} /\ doneOK = {}
    /\ procs = NoProcs /\ writes = 0
    /\ arg \in StatusInputs
    /\ ret = NoRet

SpecStatus == InitStatus /\ [][Classify]_vars

\* The label of a project that is not done, from the hours between now and
\* the due instant: whole days are counted toward zero.
C3_NotDone(diff, st) ==
    /\ st.label = "OVERDUE" <=> diff <= -HoursPerDay
    /\ st.label = "DUE TODAY" <=> (-HoursPerDay < diff /\ diff < HoursPerDay)
    /\ st.label = "DUE IN" <=> diff >= HoursPerDay
    /\ st.label = "OVERDUE" =>
           st.color = "red" /\ st.n * HoursPerDay <= -diff /\ -diff < (st.n + 1) * HoursPerDay
    /\ st.label = "DUE TODAY" => st.color = "red"
    /\ st.label = "DUE IN" =>
           /\ st.n * HoursPerDay <= diff /\ diff < (st.n + 1) * HoursPerDay
           /\ st.color = "red" <=> st.n \in 1..2
           /\ st.color = "yellow" <=> st.n \in 3..7
           /\ st.color = "green" <=> st.n > 7
    /\ diff = -HoursPerDay => st.label = "OVERDUE"
    /\ diff = 0 => st.label = "DUE TODAY"
    /\ diff = 2 * HoursPerDay => st.label = "DUE IN" /\ st.n = 2 /\ st.color = "red"
    /\ diff = 7 * HoursPerDay => st.label = "DUE IN" /\ st.n = 7 /\ st.color = "yellow"
    /\ diff = 8 * HoursPerDay => st.label = "DUE IN" /\ st.n = 8 /\ st.color = "green"

\* C3: a done project is DONE (cyan) whatever its dates; otherwise the
\* whole-day difference d between due date and now decides: d < 0 OVERDUE
\* (red), d = 0 DUE TODAY (red), 1..2 urgent (red), 3..7 warning (yellow),
\* above 7 normal (green), with the five boundary cases of the spec.
C3_Classification ==
    ret.set =>
        IF arg.done
        THEN ret.st.label = "DONE" /\ ret.st.color = "cyan"
        ELSE C3_NotDone(arg.due - arg.now, ret.st)

\* C3 witness: a project due exactly seven days from now has been classified.
C3_Witness ==
    ret.set /\ ~arg.done /\ arg.due - arg.now = 7 * HoursPerDay /\ ret.st.color = "yellow"

\* C10: for a project that is not done and due at midnight of a calendar
\* day, at every time of day, the label is DUE TODAY exactly when the due
\* date is today's date, and a later due date is labelled DUE IN n DAYS
\* with n the number of calendar days from today to the due date.
C10_CalendarDays ==
    (ret.set /\ ~arg.done /\ arg.due = truncateToDate(arg.due)) =>
        /\ ret.st.label = "DUE TODAY" <=> DayOf(arg.due) = DayOf(arg.now)
        /\ DayOf(arg.due) > DayOf(arg.now) =>
               ret.st.label = "DUE IN" /\ ret.st.n = DayOf(arg.due) - DayOf(arg.now)

----------------------------------------------------------------------------
(* nextID on its own: any list of IDs an int can hold *)

RECURSIVE SeqsUpTo(_, _)
\* The sequences over S of length at most n.
SeqsUpTo(S, n) ==
    IF n = 0 THEN {<<>>}
    ELSE LET shorter == SeqsUpTo(S, n - 1)
         IN  shorter \cup {Append(q, x) : q \in shorter, x \in S}

ProjectWithID(id) ==
    [ID |-> id, Name |-> NameA, StartDate |-> 0, DueDate |-> 0,
     Done |-> FALSE, Tags |-> <<>>, Notes |-> EmptyStr]

NextIDInputs ==
    { [kind |-> "ids", projects |-> l] :
        l \in SeqsUpTo({ProjectWithID(id) : id \in MinInt..MaxInt}, MaxListLen) }

ComputeNextID ==
    /\ arg.kind = "ids" /\ ~ret.set
    /\ ret' = [set |-> TRUE, id |-> nextID(arg.projects)]
    /\ UNCHANGED <<file, now, last, added, doneOK, procs, writes, arg>>

InitNextID ==
    /\ file = Absent /\ now = 0 /\ last = NoRun /\ added = {} /\ doneOK = {}
    /\ procs = NoProcs /\ writes = 0
    /\ arg \in NextIDInputs
    /\ ret = NoRet

SpecNextID == InitNextID /\ [][ComputeNextID]_vars

IDsOf(projects) == {projects[i].ID : i \in DOMAIN projects}

\* C5: for every project list, also the empty one and those with zero or
\* negative IDs, nextID returns an integer above every ID of the list:
\* the largest ID plus one when some ID is positive, 1 when the list is
\* empty.
C5_NextIDAboveAll ==
    ret.set =>
        /\ \A id \in IDsOf(arg.projects) : ret.id > id
        /\ (\E id \in IDsOf(arg.projects) : id > 0) =>
               \E m \in IDsOf(arg.projects) :
                   (\A id \in IDsOf(arg.projects) : id <= m) /\ ret.id = m + 1
        /\ arg.projects = <<>> => ret.id = 1

----------------------------------------------------------------------------
(* saveProjects and loadProjects on their own *)

RTProjects ==
    { [ID |-> 1, Name |-> nm, StartDate |-> 12, DueDate |-> HoursPerDay,
       Done |-> d, Tags |-> tg, Notes |-> nt] :
        nm \in {NameA, NameBad}, d \in BOOLEAN,
        tg \in {<<>>, <<<<"w">>>>}, nt \in {EmptyStr, NotesN} }

\* Objects a hand-edited file may hold beside the ones saveProjects writes:
\* "tags": [] and "notes": "" written out.
RTObjects ==
    LET written == {MarshalProject(p) : p \in RTProjects}
    IN  written \cup {[o EXCEPT !.has_tags = TRUE, !.has_notes = TRUE] : o \in written}

RTInputs ==
    { [kind |-> "list", projects |-> l, file |-> Absent] :
        l \in SeqsUpTo(RTProjects, MaxListLen) }
    \cup
    { [kind |-> "file", projects |-> <<>>, file |-> f] :
        f \in {Absent, ZeroBytes} \cup {JSONFile(q) : q \in SeqsUpTo(RTObjects, MaxListLen)} }

\* saveProjects(l) on a fresh file, then loadProjects, then saveProjects again.
SaveThenLoad ==
    /\ arg.kind = "list" /\ ~ret.set
    /\ \E sv \in {saveProjects(arg.projects, Absent, TRUE)} :
       \E ld \in {loadProjects(sv.file)} :
           ret' = [set |-> TRUE, err |-> sv.err \/ ld.err, loaded |-> ld.projects,
                   saved |-> sv.file,
                   again |-> saveProjects(ld.projects, sv.file, TRUE).file]
    /\ UNCHANGED <<file, now, last, added, doneOK, procs, writes, arg>>

\* loadProjects of a file, then saveProjects of what was loaded, then
\* loadProjects again.
LoadThenSave ==
    /\ arg.kind = "file" /\ ~ret.set
    /\ \E ld \in {loadProjects(arg.file)} :
       \E sv \in {saveProjects(ld.projects, arg.file, ~ld.err)} :
           ret' = [set |-> TRUE, err |-> ld.err, loaded |-> ld.projects,
                   saved |-> sv.file,
                   again |-> loadProjects(sv.file).projects]
    /\ UNCHANGED <<file, now, last, added, doneOK, procs, writes, arg>>

InitRoundTrip ==
    /\ file = Absent /\ now = 0 /\ last = NoRun /\ added = {} /\ doneOK = {}
    /\ procs = NoProcs /\ writes = 0
    /\ arg \in RTInputs
    /\ ret = NoRet

NextRoundTrip == SaveThenLoad \/ LoadThenSave

SpecRoundTrip == InitRoundTrip /\ [][NextRoundTrip]_vars

\* Loading a file and saving the result leaves the stored list unchanged;
\* an absent file loads as the empty list.
C6_FileSide ==
    (ret.set /\ arg.kind = "file") =>
        /\ arg.file = Absent => ~ret.err /\ ret.loaded = <<>>
        /\ ~ret.err => ret.again = ret.loaded
        /\ (arg.file.valid /\ arg.file.arr = MarshalIndent(ret.loaded)) =>
               ret.saved = arg.file

\* C6 as stated: saving any project list and loading it returns an equal
\* list, loading a file and saving the result leaves the stored list
\* unchanged, and an absent file loads as the empty list.
C6_RoundTrip ==
    /\ (ret.set /\ arg.kind = "list") => ~ret.err /\ ret.loaded = arg.projects
    /\ C6_FileSide

ValidUTF8(str) == \A k \in DOMAIN str : str[k] # "xFF"

AllValidUTF8(p) ==
    /\ ValidUTF8(p.Name) /\ ValidUTF8(p.Notes)
    /\ \A k \in DOMAIN p.Tags : ValidUTF8(p.Tags[k])

\* str2 is str1 with each invalid byte replaced by the replacement rune.
Replaced(str1, str2) ==
    /\ Len(str1) = Len(str2)
    /\ \A k \in DOMAIN str1 :
           str2[k] = (IF str1[k] = "xFF" THEN "uFFFD" ELSE str1[k])

\* The extent of C6: saving and loading returns the list with the same projects
\* in the same order and the same id, dates and done flag, and with name,
\* tags and notes equal but for invalid UTF-8 bytes, each replaced by
\* U+FFFD: an equal list when all strings are valid UTF-8.  A second save
\* writes the same file.  The file side is as stated.
RoundTripValidUTF8 ==
    /\ (ret.set /\ arg.kind = "list") =>
           /\ ~ret.err
           /\ Len(ret.loaded) = Len(arg.projects)
           /\ \A i \in DOMAIN arg.projects :
                  LET p == arg.projects[i]
                      q == ret.loaded[i]
                  IN  /\ q.ID = p.ID /\ q.Done = p.Done
                      /\ q.StartDate = p.StartDate /\ q.DueDate = p.DueDate
                      /\ Replaced(p.Name, q.Name) /\ Replaced(p.Notes, q.Notes)
                      /\ Len(q.Tags) = Len(p.Tags)
                      /\ \A k \in DOMAIN p.Tags : Replaced(p.Tags[k], q.Tags[k])
                      /\ AllValidUTF8(p) => q = p
           /\ ret.again = ret.saved
    /\ C6_FileSide

\* A list of two projects with tags and notes, one of them with an invalid
\* byte in its name, has been saved and loaded.
RoundTripReached ==
    /\ ret.set /\ arg.kind = "list" /\ Len(arg.projects) = 2
    /\ arg.projects[1].Name = NameBad /\ ret.loaded[1].Name = <<"b", "uFFFD">>
    /\ arg.projects[2].Name = NameA /\ arg.projects[2].Tags # <<>>
    /\ arg.projects[2].Notes = NotesN /\ ret.loaded[2] = arg.projects[2]

----------------------------------------------------------------------------
(* Two invocations at once.  Each is a process of its own: it checks its   *)
(* flags, loads the file, changes its copy, and saves it with os.WriteFile, *)
(* which truncates the file and then writes.  Nothing locks the file.      *)

Procs == {1, 2}

ArgsA == [name |-> NameA, start |-> NoDate, due |-> DateStr(1), tags |-> EmptyStr, notes |-> EmptyStr]
ArgsBad == [name |-> NameBad, start |-> DateStr(0), due |-> DateStr(0), tags |-> TagsTwo, notes |-> NotesN]
ArgsNoName == [ArgsA EXCEPT !.name = EmptyStr]

ConcCommands ==
    { [cmd |-> "add", a |-> ArgsA, idStr |-> EmptyStr],
      [cmd |-> "add", a |-> ArgsBad, idStr |-> EmptyStr],
      [cmd |-> "add", a |-> ArgsNoName, idStr |-> EmptyStr],
      [cmd |-> "done", a |-> ArgsA, idStr |-> Itoa(1)],
      [cmd |-> "done", a |-> ArgsA, idStr |-> <<"x">>] }

Idle == [pc |-> "start", cmd |-> "none", a |-> ArgsA, idStr |-> EmptyStr,
         mem |-> <<>>, id |-> 0, seen |-> 0, stale |-> FALSE]

\* The flags are parsed and checked (cmdAdd, cmdDone up to the load).
Begin(i, c) ==
    /\ procs[i].pc = "start"
    /\ LET bad == IF c.cmd = "add" THEN AddFlagError(c.a) # ""
                  ELSE c.idStr = EmptyStr \/ Atoi(c.idStr).err
       IN  procs' = [procs EXCEPT ![i] =
                        [@ EXCEPT !.cmd = c.cmd, !.a = c.a, !.idStr = c.idStr,
                                  !.id = IF c.cmd = "done" /\ ~bad THEN Atoi(c.idStr).v ELSE 0,
                                  !.pc = IF bad THEN "exit1" ELSE "load"]]
    /\ UNCHANGED <<file, now, last, added, doneOK, writes, arg, ret>>

\* loadProjects, and the change to the copy in memory.
Load(i) ==
    /\ procs[i].pc = "load"
    /\ \E ld \in {loadProjects(file)} :
        LET me == procs[i]
        IN  procs' = [procs EXCEPT ![i] =
                IF ld.err THEN [me EXCEPT !.pc = "exit1"]
                ELSE IF me.cmd = "add"
                THEN LET p == NewProject(me.a, ld.projects, now)
                     IN  [me EXCEPT !.mem = AppendProject(ld.projects, p), !.id = p.ID,
                                    !.seen = writes, !.pc = "open"]
                ELSE IF ~Found(ld.projects, me.id) THEN [me EXCEPT !.pc = "exit1"]
                ELSE [me EXCEPT !.mem = MarkDone(ld.projects, me.id),
                                !.seen = writes, !.pc = "open"]]
    /\ UNCHANGED <<file, now, last, added, doneOK, writes, arg, ret>>

\* os.WriteFile opens the file with O_TRUNC: the file is empty.
Open(i) ==
    /\ procs[i].pc = "open"
    /\ file' = ZeroBytes
    /\ procs' = [procs EXCEPT ![i] = [@ EXCEPT !.pc = "write"]]
    /\ UNCHANGED <<now, last, added, doneOK, writes, arg, ret>>

\* What the file holds after data is written from offset 0: the data, when
\* the file was empty or held the same bytes; otherwise another write came
\* in between, and the result is the data if it is at least as long as
\* what was there, and a mix of both that does not parse if it is shorter.
WriteOutcomes(f, data) ==
    IF f = ZeroBytes \/ f = JSONFile(data) THEN {JSONFile(data)}
    ELSE {JSONFile(data), Mixed}

\* os.WriteFile writes the bytes; the command reports success.
Write(i) ==
    /\ procs[i].pc = "write"
    /\ file' \in WriteOutcomes(file, MarshalIndent(procs[i].mem))
    /\ writes' = writes + 1
    /\ procs' = [procs EXCEPT ![i] =
                    [@ EXCEPT !.stale = (writes # procs[i].seen), !.pc = "exit0"]]
    /\ UNCHANGED <<now, last, added, doneOK, arg, ret>>

OneProject == JSONFile(MarshalIndent(<<NewProject(ArgsA, <<>>, 0)>>))

InitConc ==
    /\ file \in {Absent, OneProject}
    /\ now = 0 /\ last = NoRun /\ added = {} /\ doneOK = {}
    /\ procs = [i \in Procs |-> Idle]
    /\ writes = 0
    /\ arg = [kind |-> "conc", file0 |-> file]
    /\ ret = NoRet

NextConc ==
    \E i \in Procs :
        \/ \E c \in ConcCommands : Begin(i, c)
        \/ Load(i)
        \/ Open(i)
        \/ Write(i)

SpecConc == InitConc /\ [][NextConc]_vars

BothSucceeded == \A i \in Procs : procs[i].pc = "exit0"

\* The file shows what invocation i reported: the project it added, or the
\* done flag it set.
Effect(i) ==
    /\ file.valid
    /\ \E k \in DOMAIN file.arr :
           /\ file.arr[k].id = procs[i].id
           /\ IF procs[i].cmd = "add"
              THEN /\ file.arr[k].name = ToValidUTF8(procs[i].a.name)
                   /\ file.arr[k].due_date = EncodeTime(parseDate(procs[i].a.due).t)
              ELSE file.arr[k].done

Adds == {i \in Procs : procs[i].cmd = "add"}

\* C9: with no locking two invocations can interleave their load and save
\* steps so that both report success and the file lacks the effect of one
\* (the witness); no run in which each invocation saves what it loaded
\* from the file as the other left it, that is no sequential order of the
\* two, gives such a result: there the file parses, shows both effects,
\* and has grown by one project with an ID of its own per add.
C9_LostUpdateNeedsOverlap ==
    (BothSucceeded /\ \A i \in Procs : ~procs[i].stale) =>
        /\ file.valid
        /\ \A i \in Procs : Effect(i)
        /\ Len(file.arr) = Len(Persisted(arg.file0)) + Cardinality(Adds)
        /\ \A i, j \in Adds : i # j => procs[i].id # procs[j].id

\* C9 witness: two adds both reported success with the same new ID, and
\* the file holds only one project more than before.
C9_Witness ==
    /\ BothSucceeded /\ Adds = Procs
    /\ procs[1].id = procs[2].id
    /\ file.valid
    /\ Len(file.arr) = Len(Persisted(arg.file0)) + 1

====
